---------------------------- MODULE Spec2Model ----------------------------
(***************************************************************************)
(* Job-board backend: the in-memory store (MemStorage) and the HTTP        *)
(* request handlers registered by registerRoutes.                          *)
(*                                                                         *)
(* Text values that the code inspects character by character (search and   *)
(* location terms, salary texts, :id path parameters, comma-separated      *)
(* query lists) are sequences of one-character strings.  Values that are   *)
(* only compared for equality are TLA+ strings.  A JavaScript number is a  *)
(* record [nan, val]; an optional value (X | undefined) is a sequence of   *)
(* length 0 or 1.  Times are whole days.                                   *)
(***************************************************************************)
EXTENDS Integers, Sequences, FiniteSets, TLC

VARIABLES users, jobs, applications, categories,
          userIdCounter, jobIdCounter, applicationIdCounter, categoryIdCounter,
          now, pending, last

vars == <<users, jobs, applications, categories,
          userIdCounter, jobIdCounter, applicationIdCounter, categoryIdCounter,
          now, pending, last>>

store == <<users, jobs, applications, categories,
           userIdCounter, jobIdCounter, applicationIdCounter, categoryIdCounter>>

-----------------------------------------------------------------------------
(* Bounds of the model *)

\* records created in one run of the server or of the store
MaxRecords == 3
\* jobs stored in one run of the job search
MaxJobs == 2
\* days that pass in one run
MaxTicks == 1
\* requests in flight at once
NumClients == 2
\* direct calls of incrementCategoryJobCount on one category
MaxIncrements == 1

-----------------------------------------------------------------------------
(* JavaScript values *)

None == <<>>
Some(x) == <<x>>
IsSome(o) == Len(o) = 1
Get(o) == o[1]

NaN == [nan |-> TRUE, val |-> 0]
Num(n) == [nan |-> FALSE, val |-> n]

\* a >= b on numbers: false as soon as one side is NaN
NumGeq(a, b) == ~a.nan /\ ~b.nan /\ a.val >= b.val

UpperChars == <<"A","B","C","D","E","F","G","H","I","J","K","L","M",
                "N","O","P","Q","R","S","T","U","V","W","X","Y","Z">>
LowerChars == <<"a","b","c","d","e","f","g","h","i","j","k","l","m",
                "n","o","p","q","r","s","t","u","v","w","x","y","z">>
DigitChars == <<"0","1","2","3","4","5","6","7","8","9">>
HexChars == <<"0","1","2","3","4","5","6","7","8","9","a","b","c","d","e","f">>

IndexOf(c, table) ==
  IF \E i \in 1..Len(table) : table[i] = c
  THEN CHOOSE i \in 1..Len(table) : table[i] = c
  ELSE 0

\* String.prototype.toLowerCase
ToLowerChar(c) ==
  IF IndexOf(c, UpperChars) > 0 THEN LowerChars[IndexOf(c, UpperChars)] ELSE c
ToLowerCase(s) == [i \in 1..Len(s) |-> ToLowerChar(s[i])]

\* String.prototype.includes
Includes(s, t) ==
  \E i \in 1..(Len(s) - Len(t) + 1) : SubSeq(s, i, i + Len(t) - 1) = t

IsDigit(c) == IndexOf(c, DigitChars) > 0

\* the value of c as a digit in the given radix, -1 when it is none
DigitIn(c, radix) ==
  LET i == IndexOf(ToLowerChar(c), HexChars)
  IN IF i > 0 /\ i <= radix THEN i - 1 ELSE -1

\* how many characters at the front of s are digits in the radix
RECURSIVE DigitPrefixLen(_, _)
DigitPrefixLen(s, radix) ==
  IF s = <<>> \/ DigitIn(Head(s), radix) < 0 THEN 0
  ELSE 1 + DigitPrefixLen(Tail(s), radix)

RECURSIVE DigitsValue(_, _, _)
DigitsValue(s, radix, acc) ==
  IF s = <<>> THEN acc
  ELSE DigitsValue(Tail(s), radix, acc * radix + DigitIn(Head(s), radix))

RECURSIVE TrimStart(_)
TrimStart(s) ==
  IF s # <<>> /\ Head(s) = " " THEN TrimStart(Tail(s)) ELSE s

\* parseInt(s) with no radix argument: leading blanks and a sign are skipped,
\* a 0x prefix selects base 16, the longest digit prefix is read, and a
\* string with no digit at that place gives NaN.
ParseInt(s) ==
  LET t == TrimStart(s)
      signed == t # <<>> /\ Head(t) \in {"+", "-"}
      sign == IF signed /\ Head(t) = "-" THEN -1 ELSE 1
      u == IF signed THEN Tail(t) ELSE t
      hex == Len(u) >= 2 /\ u[1] = "0" /\ u[2] \in {"x", "X"}
      radix == IF hex THEN 16 ELSE 10
      v == IF hex THEN SubSeq(u, 3, Len(u)) ELSE u
      n == DigitPrefixLen(v, radix)
  IN IF n = 0 THEN NaN ELSE Num(sign * DigitsValue(SubSeq(v, 1, n), radix, 0))

\* s.replace(/[^\d]/g, '')
StripNonDigits(s) == SelectSeq(s, IsDigit)

\* s.replace(/,/g, '')
IsNotComma(c) == c # ","
StripCommas(s) == SelectSeq(s, IsNotComma)

\* s.split(',')
RECURSIVE SplitComma(_)
SplitComma(s) ==
  IF \E i \in 1..Len(s) : s[i] = ","
  THEN LET i == CHOOSE k \in 1..Len(s) : s[k] = "," /\ \A m \in 1..(k - 1) : s[m] # ","
       IN <<SubSeq(s, 1, i - 1)>> \o SplitComma(SubSeq(s, i + 1, Len(s)))
  ELSE <<s>>

\* The greedy match of (,\d{3})* from position p of s: the position after it.
RECURSIVE CommaGroupsEnd(_, _)
CommaGroupsEnd(s, p) ==
  IF /\ p + 3 <= Len(s)
     /\ s[p] = ","
     /\ IsDigit(s[p + 1]) /\ IsDigit(s[p + 2]) /\ IsDigit(s[p + 3])
  THEN CommaGroupsEnd(s, p + 4)
  ELSE p

\* salary.match(/\$(\d{1,3}(,\d{3})*)/): capture group 1 of the leftmost
\* match, None when nothing matches.
MatchDollarAmount(s) ==
  LET starts == {i \in 1..(Len(s) - 1) : s[i] = "$" /\ IsDigit(s[i + 1])}
  IN IF starts = {} THEN None
     ELSE LET i == CHOOSE k \in starts : \A m \in starts : k <= m
              lead == CHOOSE k \in 1..3 :
                        /\ \A m \in 1..k : i + m <= Len(s) /\ IsDigit(s[i + m])
                        /\ (k = 3 \/ i + k + 1 > Len(s) \/ ~IsDigit(s[i + k + 1]))
              stop == CommaGroupsEnd(s, i + lead + 1)
          IN Some(SubSeq(s, i + 1, stop - 1))

-----------------------------------------------------------------------------
(* Maps and records *)

\* { ...data, id }: the fields of data, with id set last
WithId(data, id) ==
  [f \in (DOMAIN data) \cup {"id"} |-> IF f = "id" THEN id ELSE data[f]]

\* { ...rec, field: value }
With(rec, field, value) ==
  [f \in (DOMAIN rec) \cup {field} |-> IF f = field THEN value ELSE rec[f]]

Has(rec, field) == field \in DOMAIN rec

\* map.set(id, rec)
MapSet(map, id, rec) ==
  [k \in (DOMAIN map) \cup {id} |-> IF k = id THEN rec ELSE map[k]]

\* map.get(id) for a number id: NaN and unknown keys give undefined
MapGet(map, id) ==
  IF ~id.nan /\ id.val \in DOMAIN map THEN Some(map[id.val]) ELSE None

\* Array.from(map.values()): insertion order.  Keys are issued by a rising
\* counter and set() on a present key keeps its place, so insertion order is
\* key order.
RECURSIVE KeysInOrder(_)
KeysInOrder(keys) ==
  IF keys = {} THEN <<>>
  ELSE LET k == CHOOSE x \in keys : \A y \in keys : x <= y
       IN <<k>> \o KeysInOrder(keys \ {k})

Values(map) ==
  LET ks == KeysInOrder(DOMAIN map) IN [i \in 1..Len(ks) |-> map[ks[i]]]

\* array.find(pred) leaves the first match; here on the indices that match
FirstOf(seq, matches) ==
  IF matches = {} THEN None
  ELSE Some(seq[CHOOSE i \in matches : \A j \in matches : i <= j])

-----------------------------------------------------------------------------
(* MemStorage: construction *)

defaultCategories ==
  << [name |-> "Technology",  icon |-> "fa-laptop-code",    jobCount |-> Num(1245)],
     [name |-> "Business",    icon |-> "fa-chart-line",     jobCount |-> Num(879)],
     [name |-> "Design",      icon |-> "fa-paint-brush",    jobCount |-> Num(623)],
     [name |-> "Marketing",   icon |-> "fa-bullhorn",       jobCount |-> Num(542)],
     [name |-> "Healthcare",  icon |-> "fa-heartbeat",      jobCount |-> Num(1032)],
     [name |-> "Education",   icon |-> "fa-graduation-cap", jobCount |-> Num(478)],
     [name |-> "Legal",       icon |-> "fa-gavel",          jobCount |-> Num(326)],
     [name |-> "Hospitality", icon |-> "fa-utensils",       jobCount |-> Num(587)] >>

\* initializeCategories: createCategory on each default, in order, from
\* counter 1
initializeCategories ==
  [id \in 1..Len(defaultCategories) |-> WithId(defaultCategories[id], id)]

-----------------------------------------------------------------------------
(* MemStorage: users *)

getUser(id) == MapGet(users, id)

getUserByUsername(username) ==
  LET all == Values(users)
  IN FirstOf(all, {i \in 1..Len(all) : all[i].username = username})

\* the record createUser builds and returns
newUser(user) == WithId(user, userIdCounter)

\* createUser with the counter left where it was
createUserSameId(user) ==
  /\ UNCHANGED userIdCounter
  /\ users' = MapSet(users, userIdCounter, newUser(user))

createUser(user) ==
  /\ userIdCounter' = userIdCounter + 1
  /\ users' = MapSet(users, userIdCounter, newUser(user))

-----------------------------------------------------------------------------
(* MemStorage: categories *)

getCategories == Values(categories)

getCategory(id) == MapGet(categories, id)

newCategory(category) == WithId(category, categoryIdCounter)

createCategory(category) ==
  /\ categoryIdCounter' = categoryIdCounter + 1
  /\ categories' = MapSet(categories, categoryIdCounter, newCategory(category))

\* x + 1 on a number, and on undefined (no value): NaN + 1 and
\* undefined + 1 are NaN
PlusOne(x) == IF x = None \/ Get(x).nan THEN NaN ELSE Num(Get(x).val + 1)

\* rec.field, undefined when the record has no such field
Field(rec, field) == IF Has(rec, field) THEN Some(rec[field]) ELSE None

\* the map after incrementCategoryJobCount(id), for an id of the map or not
categoriesIncremented(cats, id) ==
  IF MapGet(cats, id) = None THEN cats
  ELSE MapSet(cats, id.val,
              With(cats[id.val], "jobCount", PlusOne(Field(cats[id.val], "jobCount"))))

\* what incrementCategoryJobCount(id) returns
incrementedCategory(id) ==
  IF MapGet(categories, id) = None THEN None
  ELSE Some(categoriesIncremented(categories, id)[id.val])

incrementCategoryJobCount(id) ==
  categories' = categoriesIncremented(categories, id)

-----------------------------------------------------------------------------
(* MemStorage: jobs *)

getJob(id) == MapGet(jobs, id)

newJob(job) == WithId(job, jobIdCounter)

\* the last category of that name instead of the first
categoryOfJobLast(job) ==
  LET all == Values(categories)
      matches == {i \in 1..Len(all) : all[i].name = job.category}
  IN IF matches = {} THEN None
     ELSE Some(all[CHOOSE i \in matches : \A j \in matches : i >= j])

\* the category createJob increments: the first one, in insertion order,
\* whose name is the job's category
categoryOfJob(job) ==
  LET all == Values(categories)
  IN FirstOf(all, {i \in 1..Len(all) : all[i].name = job.category})

\* createJob without the increment of the category's jobCount
createJobUncounted(job) ==
  /\ jobIdCounter' = jobIdCounter + 1
  /\ jobs' = MapSet(jobs, jobIdCounter, newJob(job))
  /\ UNCHANGED categories

createJob(job) ==
  /\ jobIdCounter' = jobIdCounter + 1
  /\ jobs' = MapSet(jobs, jobIdCounter, newJob(job))
  /\ IF IsSome(categoryOfJob(job))
     THEN incrementCategoryJobCount(Num(Get(categoryOfJob(job)).id))
     ELSE UNCHANGED categories

IsOfEmployer(job, employerId) == ~employerId.nan /\ job.employerId = employerId.val

getJobsByEmployer(employerId) ==
  SelectSeq(Values(jobs), LAMBDA job : IsOfEmployer(job, employerId))

-----------------------------------------------------------------------------
(* MemStorage: applications *)

getApplicationsByJob(jobId) ==
  SelectSeq(Values(applications),
            LAMBDA application : ~jobId.nan /\ application.jobId = jobId.val)

getApplicationsByUser(userId) ==
  SelectSeq(Values(applications),
            LAMBDA application : ~userId.nan /\ application.userId = userId.val)

newApplication(application) == WithId(application, applicationIdCounter)

createApplication(application) ==
  /\ applicationIdCounter' = applicationIdCounter + 1
  /\ applications' = MapSet(applications, applicationIdCounter, newApplication(application))

\* the updated record built without the spread of the stored one
updatedApplicationBare(id, status) ==
  IF MapGet(applications, id) = None THEN None
  ELSE Some([id |-> id.val, status |-> status])

\* what updateApplicationStatus(id, status) returns
updatedApplication(id, status) ==
  IF MapGet(applications, id) = None THEN None
  ELSE Some(With(applications[id.val], "status", status))

\* the status written to every application
updateApplicationStatusAll(id, status) ==
  applications' = IF MapGet(applications, id) = None THEN applications
                  ELSE [k \in DOMAIN applications |-> With(applications[k], "status", status)]

updateApplicationStatus(id, status) ==
  applications' = IF updatedApplication(id, status) = None THEN applications
                  ELSE MapSet(applications, id.val, Get(updatedApplication(id, status)))

-----------------------------------------------------------------------------
(* MemStorage.getJobs.  The filters argument is a record holding the fields *)
(* that are set; getJobs() with no argument is getJobs of the empty record: *)
(* both skip every filter.                                                  *)

\* if (filters.x) on a text field: set and not the empty string
TruthyText(filters, field) == Has(filters, field) /\ filters[field] # <<>>

searchFilter(list, filters) ==
  IF TruthyText(filters, "search")
  THEN LET searchTerm == ToLowerCase(filters.search)
       IN SelectSeq(list, LAMBDA job :
            \/ Includes(ToLowerCase(job.title), searchTerm)
            \/ Includes(ToLowerCase(job.company), searchTerm)
            \/ Includes(ToLowerCase(job.description), searchTerm))
  ELSE list

locationFilter(list, filters) ==
  IF TruthyText(filters, "location")
  THEN LET locationTerm == ToLowerCase(filters.location)
       IN SelectSeq(list, LAMBDA job : Includes(ToLowerCase(job.location), locationTerm))
  ELSE list

categoryFilter(list, filters) ==
  IF Has(filters, "category") /\ filters.category # ""
  THEN SelectSeq(list, LAMBDA job : job.category = filters.category)
  ELSE list

\* array.includes(x)
ArrayIncludes(array, x) == \E i \in 1..Len(array) : array[i] = x

\* the job type filter applied to an empty list too
jobTypeFilterStrict(list, filters) ==
  IF Has(filters, "jobType")
  THEN SelectSeq(list, LAMBDA job : ArrayIncludes(filters.jobType, job.jobType))
  ELSE list

jobTypeFilter(list, filters) ==
  IF Has(filters, "jobType") /\ Len(filters.jobType) > 0
  THEN SelectSeq(list, LAMBDA job : ArrayIncludes(filters.jobType, job.jobType))
  ELSE list

experienceLevelFilter(list, filters) ==
  IF Has(filters, "experienceLevel") /\ Len(filters.experienceLevel) > 0
  THEN SelectSeq(list, LAMBDA job : ArrayIncludes(filters.experienceLevel, job.experienceLevel))
  ELSE list

\* the days the switch on filters.datePosted goes back; 0 for the values
\* that have no case
datePostedDays(datePosted) ==
  CASE datePosted = "last24h" -> 1
    [] datePosted = "last3d" -> 3
    [] datePosted = "last7d" -> 7
    [] datePosted = "last14d" -> 14
    [] OTHER -> 0

datePostedFilter(list, filters, time) ==
  IF Has(filters, "datePosted") /\ filters.datePosted # ""
     /\ datePostedDays(filters.datePosted) > 0
  THEN LET jobDate == time - datePostedDays(filters.datePosted)
       IN SelectSeq(list, LAMBDA job : job.postedDate >= jobDate)
  ELSE list

\* the salary callback of the filter: no salary, or no dollar amount in it,
\* is not kept
salaryAtLeast(job, minSalary) ==
  IF ~Has(job, "salary") \/ job.salary = <<>> THEN FALSE
  ELSE LET match == MatchDollarAmount(job.salary)
       IN IF match = None THEN FALSE
          ELSE NumGeq(ParseInt(StripCommas(Get(match))), minSalary)

salaryRangeFilter(list, filters) ==
  IF TruthyText(filters, "salaryRange")
  THEN LET minSalary == ParseInt(StripNonDigits(filters.salaryRange))
       IN SelectSeq(list, LAMBDA job : salaryAtLeast(job, minSalary))
  ELSE list

\* the comparator with its operands exchanged
compareJobsAscending(a, b) == a.postedDate - b.postedDate

\* the comparator of the sort: negative when a goes first
compareJobs(a, b) == b.postedDate - a.postedDate

\* Array.prototype.sort is stable: x goes before the first element that the
\* comparator places after it.
RECURSIVE InsertSorted(_, _)
InsertSorted(sorted, x) ==
  IF sorted = <<>> THEN <<x>>
  ELSE IF compareJobs(Head(sorted), x) > 0 THEN <<x>> \o sorted
  ELSE <<Head(sorted)>> \o InsertSorted(Tail(sorted), x)

RECURSIVE SortFrom(_, _)
SortFrom(sorted, rest) ==
  IF rest = <<>> THEN sorted
  ELSE SortFrom(InsertSorted(sorted, Head(rest)), Tail(rest))

sortJobs(list) == SortFrom(<<>>, list)

getJobs(filters, time) ==
  sortJobs(
    salaryRangeFilter(
      datePostedFilter(
        experienceLevelFilter(
          jobTypeFilter(
            categoryFilter(
              locationFilter(
                searchFilter(Values(jobs), filters),
                filters),
              filters),
            filters),
          filters),
        filters, time),
      filters))

-----------------------------------------------------------------------------
(* The insert schemas.  createInsertSchema makes a column required when it  *)
(* is notNull() and has no default, and optional otherwise; parse() keeps   *)
(* the picked columns only.  Request bodies are records of well-typed       *)
(* values, so a body fails parse() exactly when a required column is        *)
(* missing.                                                                 *)

insertUserRequired == {"username", "password", "email", "userType"}
insertUserSchema == insertUserRequired \cup {"companyName", "location", "bio"}

insertJobRequired ==
  {"title", "company", "location", "description", "requirements", "jobType",
   "category", "experienceLevel", "skills", "postedDate", "employerId"}
insertJobSchema == insertJobRequired \cup {"salary"}

insertApplicationRequired ==
  {"jobId", "userId", "name", "email", "phone", "resume", "status", "appliedDate"}
insertApplicationSchema == insertApplicationRequired \cup {"coverLetter"}

\* schema.parse(body): the parsed data, or None where parse throws a ZodError
Parse(required, picked, body) ==
  IF required \subseteq DOMAIN body
  THEN Some([f \in (DOMAIN body) \cap picked |-> body[f]])
  ELSE None

parseUser(body) == Parse(insertUserRequired, insertUserSchema, body)
parseJob(body) == Parse(insertJobRequired, insertJobSchema, body)
parseApplication(body) == Parse(insertApplicationRequired, insertApplicationSchema, body)

-----------------------------------------------------------------------------
(* Request handlers.  A handler runs without interruption up to an await;  *)
(* every store method finishes inside the call that starts it, so a        *)
(* handler's only suspension that another request can observe is the one   *)
(* between two store calls: POST /api/users has one, after its lookup.     *)

Clients == 1..NumClients

NoCall == [op |-> "none", arg |-> <<>>, res |-> <<>>]

\* the server takes up a request, or the store a call, once the last result
\* is handed over
Ready == last = NoCall

\* records created so far, and being created by requests in flight
Records ==
  (userIdCounter - 1) + (jobIdCounter - 1) + (applicationIdCounter - 1)
  + (categoryIdCounter - 1 - Len(defaultCategories))
  + Cardinality({c \in Clients : pending[c] # None})

\* a run creates MaxRecords records at most
MayCreate == Ready /\ Records < MaxRecords

Response(status, body) == [status |-> status, body |-> body]
Message(text) == [message |-> text]
Done(op, arg, res) == last' = [op |-> op, arg |-> arg, res |-> res]

ValidationError == Message("validation error")

\* POST /api/users up to the await of getUserByUsername
PostUsersLookup(c, body) ==
  /\ MayCreate
  /\ pending[c] = None
  /\ IF parseUser(body) = None
     THEN /\ Done("POST /api/users", body, Response(400, ValidationError))
          /\ UNCHANGED pending
     ELSE LET userData == Get(parseUser(body))
          IN /\ pending' = [pending EXCEPT ![c] =
                   Some([userData |-> userData,
                         existingUser |-> getUserByUsername(userData.username)])]
             /\ UNCHANGED last
  /\ UNCHANGED <<store, now>>

\* POST /api/users creating whatever the lookup found
PostUsersCreateUnchecked(c) ==
  /\ Ready
  /\ pending[c] # None
  /\ pending' = [pending EXCEPT ![c] = None]
  /\ createUser(Get(pending[c]).userData)
  /\ Done("POST /api/users", Get(pending[c]).userData,
          Response(201, newUser(Get(pending[c]).userData)))
  /\ UNCHANGED <<jobs, applications, categories,
                 jobIdCounter, applicationIdCounter, categoryIdCounter, now>>

\* POST /api/users from the await of getUserByUsername on
PostUsersCreate(c) ==
  /\ Ready
  /\ pending[c] # None
  /\ pending' = [pending EXCEPT ![c] = None]
  /\ LET userData == Get(pending[c]).userData
     IN IF Get(pending[c]).existingUser # None
        THEN /\ Done("POST /api/users", userData,
                     Response(400, Message("Username already exists")))
             /\ UNCHANGED <<users, userIdCounter>>
        ELSE /\ createUser(userData)
             /\ Done("POST /api/users", userData, Response(201, newUser(userData)))
  /\ UNCHANGED <<jobs, applications, categories,
                 jobIdCounter, applicationIdCounter, categoryIdCounter, now>>

\* GET /api/users/:id
GetUsersId(idParam) ==
  /\ Ready
  /\ LET user == getUser(ParseInt(idParam))
     IN Done("GET /api/users/:id", idParam,
             IF user = None THEN Response(404, Message("User not found"))
             ELSE Response(200, Get(user)))
  /\ UNCHANGED <<store, now, pending>>

\* the filters object GET /api/jobs builds from the query string
queryFilters(query) ==
  LET lists == {"jobType", "experienceLevel"}
      set == {f \in DOMAIN query : f \in lists => query[f] # <<>>}
  IN [f \in set |-> IF f \in lists THEN SplitComma(query[f]) ELSE query[f]]

\* GET /api/jobs
GetJobs(query) ==
  /\ Ready
  /\ Done("GET /api/jobs", query, Response(200, getJobs(queryFilters(query), now)))
  /\ UNCHANGED <<store, now, pending>>

\* GET /api/jobs/:id that throws on an id that is no number
GetJobsIdRejectNaN(idParam) ==
  /\ Ready
  /\ LET job == getJob(ParseInt(idParam))
     IN Done("GET /api/jobs/:id", idParam,
             IF ParseInt(idParam).nan THEN Response(500, Message("Failed to retrieve job"))
             ELSE IF job = None THEN Response(404, Message("Job not found"))
             ELSE Response(200, Get(job)))
  /\ UNCHANGED <<store, now, pending>>

\* GET /api/jobs/:id
GetJobsId(idParam) ==
  /\ Ready
  /\ LET job == getJob(ParseInt(idParam))
     IN Done("GET /api/jobs/:id", idParam,
             IF job = None THEN Response(404, Message("Job not found"))
             ELSE Response(200, Get(job)))
  /\ UNCHANGED <<store, now, pending>>

\* if (!data.field): the field is missing, or empty text
Falsy(data, field, empty) == ~Has(data, field) \/ data[field] = empty

\* POST /api/jobs
PostJobs(body) ==
  /\ MayCreate
  /\ IF parseJob(body) = None
     THEN /\ Done("POST /api/jobs", body, Response(400, ValidationError))
          /\ UNCHANGED <<jobs, jobIdCounter, categories>>
     ELSE LET parsed == Get(parseJob(body))
              jobData == IF ~Has(parsed, "postedDate")
                         THEN With(parsed, "postedDate", now) ELSE parsed
          IN /\ createJob(jobData)
             /\ Done("POST /api/jobs", body, Response(201, newJob(jobData)))
  /\ UNCHANGED <<users, applications, userIdCounter, applicationIdCounter,
                 categoryIdCounter, now, pending>>

\* GET /api/employers/:id/jobs
GetEmployersIdJobs(idParam) ==
  /\ Ready
  /\ Done("GET /api/employers/:id/jobs", idParam,
          Response(200, getJobsByEmployer(ParseInt(idParam))))
  /\ UNCHANGED <<store, now, pending>>

\* POST /api/applications
PostApplications(body) ==
  /\ MayCreate
  /\ IF parseApplication(body) = None
     THEN /\ Done("POST /api/applications", body, Response(400, ValidationError))
          /\ UNCHANGED <<applications, applicationIdCounter>>
     ELSE LET parsed == Get(parseApplication(body))
              withStatus == IF Falsy(parsed, "status", "")
                            THEN With(parsed, "status", "applied") ELSE parsed
              applicationData == IF ~Has(withStatus, "appliedDate")
                                 THEN With(withStatus, "appliedDate", now)
                                 ELSE withStatus
          IN /\ createApplication(applicationData)
             /\ Done("POST /api/applications", body,
                     Response(201, newApplication(applicationData)))
  /\ UNCHANGED <<users, jobs, categories, userIdCounter, jobIdCounter,
                 categoryIdCounter, now, pending>>

\* GET /api/jobs/:id/applications
GetJobsIdApplications(idParam) ==
  /\ Ready
  /\ Done("GET /api/jobs/:id/applications", idParam,
          Response(200, getApplicationsByJob(ParseInt(idParam))))
  /\ UNCHANGED <<store, now, pending>>

\* GET /api/users/:id/applications
GetUsersIdApplications(idParam) ==
  /\ Ready
  /\ Done("GET /api/users/:id/applications", idParam,
          Response(200, getApplicationsByUser(ParseInt(idParam))))
  /\ UNCHANGED <<store, now, pending>>

\* PATCH /api/applications/:id/status
PatchApplicationsIdStatus(idParam, body) ==
  /\ Ready
  /\ LET applicationId == ParseInt(idParam)
         arg == [id |-> idParam, body |-> body]
     IN IF Falsy(body, "status", "")
        THEN /\ Done("PATCH /api/applications/:id/status", arg,
                     Response(400, Message("Status is required")))
             /\ UNCHANGED applications
        ELSE /\ updateApplicationStatus(applicationId, body.status)
             /\ Done("PATCH /api/applications/:id/status", arg,
                     IF updatedApplication(applicationId, body.status) = None
                     THEN Response(404, Message("Application not found"))
                     ELSE Response(200, Get(updatedApplication(applicationId, body.status))))
  /\ UNCHANGED <<users, jobs, categories, userIdCounter, jobIdCounter,
                 applicationIdCounter, categoryIdCounter, now, pending>>

\* GET /api/categories
GetCategories ==
  /\ Ready
  /\ Done("GET /api/categories", <<>>, Response(200, getCategories))
  /\ UNCHANGED <<store, now, pending>>

\* time passes between requests
Tick ==
  /\ Ready
  /\ now < 20 + MaxTicks
  /\ now' = now + 1
  /\ UNCHANGED <<store, pending, last>>

\* the response is sent
Return ==
  /\ last # NoCall
  /\ last' = NoCall
  /\ UNCHANGED <<store, now, pending>>

-----------------------------------------------------------------------------
(* Requests the clients send *)

EmptyRecord == <<>>

UserBody(username) ==
  [username |-> username, password |-> "secret", email |-> "a@b.c",
   userType |-> "jobseeker"]

UserBodies ==
  << UserBody("alice"),
     UserBody("Alice"),
     [username |-> "alice", password |-> "other", email |-> "h@r.co",
      userType |-> "employer", companyName |-> "Acme"],
     [username |-> "alice", email |-> "a@b.c", userType |-> "jobseeker"] >>

JobBody(category, postedDate) ==
  [title |-> <<"D","e","v">>, company |-> <<"A","c","m","e">>,
   location |-> <<"N","Y">>, description |-> <<"j","s">>,
   requirements |-> "none", jobType |-> <<"f","t">>, category |-> category,
   experienceLevel |-> <<"m","i","d">>, skills |-> <<"js">>,
   postedDate |-> postedDate, employerId |-> 1]

\* a job body without the field
Without(rec, field) == [f \in (DOMAIN rec) \ {field} |-> rec[f]]

JobBodies ==
  << JobBody("Technology", 20),
     With(JobBody("Gardening", 12), "salary", <<"$","6","0",",","0","0","0">>),
     Without(JobBody("Design", 20), "postedDate") >>

ApplicationBody(status) ==
  [jobId |-> 1, userId |-> 1, name |-> "Al", email |-> "a@b.c",
   phone |-> "555", resume |-> "cv", status |-> status, appliedDate |-> 19]

ApplicationBodies ==
  << ApplicationBody("applied"),
     With(ApplicationBody("interview"), "coverLetter", "hello"),
     Without(ApplicationBody("applied"), "status"),
     Without(ApplicationBody("applied"), "appliedDate") >>

StatusBodies == << [status |-> "reviewed"], [status |-> ""], EmptyRecord >>

IdParams == << <<"1">>, <<"2">>, <<"a","b">>, <<"1","x">> >>

Queries ==
  << EmptyRecord,
     [jobType |-> <<"p","t",",","f","t">>, datePosted |-> "last7d"],
     [category |-> "Technology", search |-> <<"d","E">>],
     [jobType |-> <<>>, salaryRange |-> <<"$","5","5",",","0","0","0">>] >>

-----------------------------------------------------------------------------
(* The server: a freshly constructed store, and requests in any order *)

Init ==
  /\ users = <<>>
  /\ jobs = <<>>
  /\ applications = <<>>
  /\ categories = initializeCategories
  /\ userIdCounter = 1
  /\ jobIdCounter = 1
  /\ applicationIdCounter = 1
  /\ categoryIdCounter = Len(defaultCategories) + 1
  /\ now = 20
  /\ pending = [c \in Clients |-> None]
  /\ last = NoCall

Next ==
  \/ \E c \in Clients, i \in 1..Len(UserBodies) : PostUsersLookup(c, UserBodies[i])
  \/ \E c \in Clients : PostUsersCreate(c)
  \/ \E i \in 1..Len(IdParams) : GetUsersId(IdParams[i])
  \/ \E i \in 1..Len(Queries) : GetJobs(Queries[i])
  \/ \E i \in 1..Len(IdParams) : GetJobsId(IdParams[i])
  \/ \E i \in 1..Len(JobBodies) : PostJobs(JobBodies[i])
  \/ \E i \in 1..Len(IdParams) : GetEmployersIdJobs(IdParams[i])
  \/ \E i \in 1..Len(ApplicationBodies) : PostApplications(ApplicationBodies[i])
  \/ \E i \in 1..Len(IdParams) : GetJobsIdApplications(IdParams[i])
  \/ \E i \in 1..Len(IdParams) : GetUsersIdApplications(IdParams[i])
  \/ \E i \in 1..Len(IdParams), j \in 1..Len(StatusBodies) :
       PatchApplicationsIdStatus(IdParams[i], StatusBodies[j])
  \/ GetCategories
  \/ Tick
  \/ Return

Spec == Init /\ [][Next]_vars

\* no request is in flight
Idle == pending = [c \in Clients |-> None]

\* the same server when each request is answered before the next arrives
SeqNext ==
  \/ \E c \in Clients, i \in 1..Len(UserBodies) :
       Idle /\ PostUsersLookup(c, UserBodies[i])
  \/ \E c \in Clients : PostUsersCreate(c)
  \/ \E i \in 1..Len(IdParams) : Idle /\ GetUsersId(IdParams[i])
  \/ \E i \in 1..Len(Queries) : Idle /\ GetJobs(Queries[i])
  \/ \E i \in 1..Len(IdParams) : Idle /\ GetJobsId(IdParams[i])
  \/ \E i \in 1..Len(JobBodies) : Idle /\ PostJobs(JobBodies[i])
  \/ \E i \in 1..Len(IdParams) : Idle /\ GetEmployersIdJobs(IdParams[i])
  \/ \E i \in 1..Len(ApplicationBodies) : Idle /\ PostApplications(ApplicationBodies[i])
  \/ \E i \in 1..Len(IdParams) : Idle /\ GetJobsIdApplications(IdParams[i])
  \/ \E i \in 1..Len(IdParams) : Idle /\ GetUsersIdApplications(IdParams[i])
  \/ \E i \in 1..Len(IdParams), j \in 1..Len(StatusBodies) :
       Idle /\ PatchApplicationsIdStatus(IdParams[i], StatusBodies[j])
  \/ Idle /\ GetCategories
  \/ Idle /\ Tick
  \/ Return

SeqSpec == Init /\ [][SeqNext]_vars

-----------------------------------------------------------------------------
(* The store used directly: calls of the MemStorage methods in any order *)

CreateUserCall(user) ==
  /\ Ready
  /\ createUser(user)
  /\ Done("createUser", user, newUser(user))
  /\ UNCHANGED <<jobs, applications, categories, jobIdCounter,
                 applicationIdCounter, categoryIdCounter, now, pending>>

GetUserCall(id) ==
  /\ Ready
  /\ Done("getUser", id, getUser(id))
  /\ UNCHANGED <<store, now, pending>>

GetUserByUsernameCall(username) ==
  /\ Ready
  /\ Done("getUserByUsername", username, getUserByUsername(username))
  /\ UNCHANGED <<store, now, pending>>

CreateJobCall(job) ==
  /\ Ready
  /\ createJob(job)
  /\ Done("createJob", job, newJob(job))
  /\ UNCHANGED <<users, applications, userIdCounter, applicationIdCounter,
                 categoryIdCounter, now, pending>>

GetJobCall(id) ==
  /\ Ready
  /\ Done("getJob", id, getJob(id))
  /\ UNCHANGED <<store, now, pending>>

GetJobsCall(filters) ==
  /\ Ready
  /\ Done("getJobs", filters, getJobs(filters, now))
  /\ UNCHANGED <<store, now, pending>>

GetJobsByEmployerCall(employerId) ==
  /\ Ready
  /\ Done("getJobsByEmployer", employerId, getJobsByEmployer(employerId))
  /\ UNCHANGED <<store, now, pending>>

CreateApplicationCall(application) ==
  /\ Ready
  /\ createApplication(application)
  /\ Done("createApplication", application, newApplication(application))
  /\ UNCHANGED <<users, jobs, categories, userIdCounter, jobIdCounter,
                 categoryIdCounter, now, pending>>

GetApplicationsByJobCall(jobId) ==
  /\ Ready
  /\ Done("getApplicationsByJob", jobId, getApplicationsByJob(jobId))
  /\ UNCHANGED <<store, now, pending>>

GetApplicationsByUserCall(userId) ==
  /\ Ready
  /\ Done("getApplicationsByUser", userId, getApplicationsByUser(userId))
  /\ UNCHANGED <<store, now, pending>>

UpdateApplicationStatusCall(id, status) ==
  /\ Ready
  /\ updateApplicationStatus(id, status)
  /\ Done("updateApplicationStatus", [id |-> id, status |-> status],
          updatedApplication(id, status))
  /\ UNCHANGED <<users, jobs, categories, userIdCounter, jobIdCounter,
                 applicationIdCounter, categoryIdCounter, now, pending>>

GetCategoriesCall ==
  /\ Ready
  /\ Done("getCategories", <<>>, getCategories)
  /\ UNCHANGED <<store, now, pending>>

GetCategoryCall(id) ==
  /\ Ready
  /\ Done("getCategory", id, getCategory(id))
  /\ UNCHANGED <<store, now, pending>>

CreateCategoryCall(category) ==
  /\ Ready
  /\ createCategory(category)
  /\ Done("createCategory", category, newCategory(category))
  /\ UNCHANGED <<users, jobs, applications, userIdCounter, jobIdCounter,
                 applicationIdCounter, now, pending>>

IncrementCategoryJobCountCall(id) ==
  /\ Ready
  /\ incrementCategoryJobCount(id)
  /\ Done("incrementCategoryJobCount", id, incrementedCategory(id))
  /\ UNCHANGED <<users, jobs, applications, userIdCounter, jobIdCounter,
                 applicationIdCounter, categoryIdCounter, now, pending>>

\* the jobCount a category started with
firstJobCount(id) ==
  IF id \in 1..Len(defaultCategories) THEN defaultCategories[id].jobCount.val ELSE 0

\* a run counts a category up MaxIncrements times at most by direct calls
MayIncrement(id) ==
  IF getCategory(id) = None THEN TRUE
  ELSE IF PlusOne(Field(categories[id.val], "jobCount")).nan THEN TRUE
  ELSE categories[id.val].jobCount.val < firstJobCount(id.val) + MaxIncrements

\* what the callers pass
StoreUsers == << UserBody("alice"), UserBody("Alice") >>

StoreJobs ==
  << JobBody("Technology", 20),
     With(JobBody("Gardening", 12), "salary", <<"$","6","0",",","0","0","0">>) >>

StoreApplications ==
  << ApplicationBody("applied"),
     With(ApplicationBody("interview"), "coverLetter", "hello") >>

StoreCategories ==
  << [name |-> "Technology", icon |-> "fa-microchip", jobCount |-> Num(0)],
     [name |-> "Gardening", icon |-> "fa-leaf"] >>

StoreIds == << Num(1), Num(9), NaN >>

Statuses == << "reviewed", "hired" >>

StoreFilters ==
  << EmptyRecord,
     [category |-> "Technology", jobType |-> << <<"f","t">> >>],
     [salaryRange |-> <<"$","5","5",",","0","0","0">>] >>

StoreNext ==
  \/ \E i \in 1..Len(StoreUsers) : Records < MaxRecords /\ CreateUserCall(StoreUsers[i])
  \/ \E i \in 1..Len(StoreIds) : GetUserCall(StoreIds[i])
  \/ \E i \in 1..Len(StoreUsers) : GetUserByUsernameCall(StoreUsers[i].username)
  \/ \E i \in 1..Len(StoreJobs) : Records < MaxRecords /\ CreateJobCall(StoreJobs[i])
  \/ \E i \in 1..Len(StoreIds) : GetJobCall(StoreIds[i])
  \/ \E i \in 1..Len(StoreFilters) : GetJobsCall(StoreFilters[i])
  \/ \E i \in 1..Len(StoreIds) : GetJobsByEmployerCall(StoreIds[i])
  \/ \E i \in 1..Len(StoreApplications) :
       Records < MaxRecords /\ CreateApplicationCall(StoreApplications[i])
  \/ \E i \in 1..Len(StoreIds) : GetApplicationsByJobCall(StoreIds[i])
  \/ \E i \in 1..Len(StoreIds) : GetApplicationsByUserCall(StoreIds[i])
  \/ \E i \in 1..Len(StoreIds), j \in 1..Len(Statuses) :
       UpdateApplicationStatusCall(StoreIds[i], Statuses[j])
  \/ GetCategoriesCall
  \/ \E i \in 1..Len(StoreIds) : GetCategoryCall(StoreIds[i])
  \/ \E i \in 1..Len(StoreCategories) :
       Records < MaxRecords /\ CreateCategoryCall(StoreCategories[i])
  \/ \E i \in 1..Len(StoreIds) :
       MayIncrement(StoreIds[i]) /\ IncrementCategoryJobCountCall(StoreIds[i])
  \/ Return

StoreSpec == Init /\ [][StoreNext]_vars

-----------------------------------------------------------------------------
(* The job search: jobs of every kind stored through createJob, and getJobs *)
(* called with every combination of the filter values below                 *)

QueryJobs ==
  << [title |-> <<"D","e","v">>, company |-> <<"A","c","m","e">>,
       location |-> <<"N","Y">>, description |-> <<"j","s">>,
       requirements |-> "none", jobType |-> <<"f","t">>, category |-> "Technology",
       experienceLevel |-> <<"m","i","d">>, skills |-> <<"js">>,
       postedDate |-> 20, employerId |-> 1,
       salary |-> <<"$","6","0",",","0","0","0"," ","-"," ","$","8","0",",","0","0","0">>],
     [title |-> <<"C","h","e","f">>, company |-> <<"B","i","s","t","r","o">>,
       location |-> <<"L","A">>, description |-> <<"c","o","o","k">>,
       requirements |-> "none", jobType |-> <<"p","t">>, category |-> "Hospitality",
       experienceLevel |-> <<"s","e","n","i","o","r">>, skills |-> <<"js">>,
       postedDate |-> 5, employerId |-> 2,
       salary |-> <<"7","0",",","0","0","0">>],
     [title |-> <<"A","r","t">>, company |-> <<"A","d","e","p","t">>,
       location |-> <<"A","l","b","a","n","y">>, description |-> <<"u","i">>,
       requirements |-> "none", jobType |-> <<"f","t">>, category |-> "Design",
       experienceLevel |-> <<"m","i","d">>, skills |-> <<"js">>,
       postedDate |-> 20, employerId |-> 1,
       salary |-> <<"$","5","0","0","0","0">>],
     [title |-> <<"N","u","r","s","e">>, company |-> <<"C","l","i","n","i","c">>,
       location |-> <<"N","Y">>, description |-> <<"c","a","r","e">>,
       requirements |-> "none", jobType |-> <<"c","o","n","t","r","a","c","t">>, category |-> "Healthcare",
       experienceLevel |-> <<"e","n","t","r","y">>, skills |-> <<"js">>,
       postedDate |-> 25, employerId |-> 2] >>

SearchChoices == << None, Some(<<"d","E">>) >>
LocationChoices == << None, Some(<<"n","y">>) >>
CategoryChoices == << None, Some(""), Some("Design") >>
JobTypeChoices == << None, Some(<<>>), Some(<< <<"f","t">>, <<"c","o","n","t","r","a","c","t">> >>) >>
ExperienceLevelChoices == << None, Some(<< <<"m","i","d">> >>) >>
DatePostedChoices == << None, Some("last24h"), Some("last14d"), Some("all") >>
SalaryRangeChoices == << None, Some(<<"$","5","5",",","0","0","0">>), Some(<<"a","n","y">>) >>

\* the filters object with the fields that are given
Filters(search, location, category, jobType, experienceLevel, datePosted, salaryRange) ==
  LET given == [search |-> search, location |-> location, category |-> category,
                jobType |-> jobType, experienceLevel |-> experienceLevel,
                datePosted |-> datePosted, salaryRange |-> salaryRange]
  IN [f \in {g \in DOMAIN given : given[g] # None} |-> Get(given[f])]

JobQueries ==
  << [jobType |-> <<"p","t",",","f","t">>, datePosted |-> "last7d"],
     [experienceLevel |-> <<"s","e","n","i","o","r",",","e","n","t","r","y">>, search |-> <<"C">>],
     [jobType |-> <<>>, category |-> "Design", datePosted |-> "last3d"],
     [search |-> <<>>, location |-> <<>>, salaryRange |-> <<>>, datePosted |-> ""] >>

QueryNext ==
  \/ \E i \in 1..Len(QueryJobs) : jobIdCounter <= MaxJobs /\ CreateJobCall(QueryJobs[i])
  \/ \E s \in 1..Len(SearchChoices), l \in 1..Len(LocationChoices),
        c \in 1..Len(CategoryChoices), t \in 1..Len(JobTypeChoices),
        e \in 1..Len(ExperienceLevelChoices), d \in 1..Len(DatePostedChoices),
        r \in 1..Len(SalaryRangeChoices) :
       GetJobsCall(Filters(SearchChoices[s], LocationChoices[l], CategoryChoices[c],
                           JobTypeChoices[t], ExperienceLevelChoices[e],
                           DatePostedChoices[d], SalaryRangeChoices[r]))
  \/ \E i \in 1..Len(JobQueries) : GetJobs(JobQueries[i])
  \/ Tick
  \/ Return

QuerySpec == Init /\ [][QueryNext]_vars

-----------------------------------------------------------------------------
(* Properties *)

\* C1: usernames stay unique under any interleaving of POST /api/users
\* handlers: no two stored users have the same username.
C1_UsernamesUnique ==
  \A i, j \in DOMAIN users : users[i].username = users[j].username => i = j

\* C2: with requests handled one after another, POST /api/users with a
\* username no stored user has answers 201 with an id no earlier user got and
\* stores that user; with a username a stored user has (compared
\* case-sensitively) it answers 400 'Username already exists' and leaves the
\* users as they were.
C2_SequentialUserCreation ==
  [][\A c \in Clients :
       (pending[c] # None /\ pending'[c] = None) =>
         LET username == Get(pending[c]).userData.username
         IN IF \E i \in DOMAIN users : users[i].username = username
            THEN /\ last'.res = Response(400, Message("Username already exists"))
                 /\ users' = users
                 /\ userIdCounter' = userIdCounter
            ELSE /\ last'.res.status = 201
                 /\ last'.res.body.username = username
                 /\ \A i \in DOMAIN users : last'.res.body.id > i
                 /\ DOMAIN users' = DOMAIN users \cup {last'.res.body.id}
                 /\ users'[last'.res.body.id] = last'.res.body
                 /\ \A i \in DOMAIN users : users'[i] = users[i]]_vars

\* a duplicate username has been turned down after an earlier user was stored
C2_DuplicateRejected ==
  /\ last.op = "POST /api/users"
  /\ last.res = Response(400, Message("Username already exists"))
  /\ \E i \in DOMAIN users : users[i].username = last.arg.username

IdsInOrder(map, counter) ==
  /\ DOMAIN map = 1..(counter - 1)
  /\ \A i \in DOMAIN map : map[i].id = i

NewIdsAbove(old, new) ==
  /\ DOMAIN old \subseteq DOMAIN new
  /\ \A i \in (DOMAIN new) \ (DOMAIN old) : \A j \in DOMAIN old : i > j

\* C3: after any sequence of create operations, within each entity type the
\* stored records have distinct ids 1, 2, ... in the order of creation: each
\* new id is greater than every earlier one, the first is 1, none is assigned
\* twice.
C3_IdsIncrease ==
  /\ [](/\ IdsInOrder(users, userIdCounter)
        /\ IdsInOrder(jobs, jobIdCounter)
        /\ IdsInOrder(applications, applicationIdCounter)
        /\ IdsInOrder(categories, categoryIdCounter))
  /\ [][/\ NewIdsAbove(users, users')
        /\ NewIdsAbove(jobs, jobs')
        /\ NewIdsAbove(applications, applications')
        /\ NewIdsAbove(categories, categories')]_vars

\* two users and a category were created after the seeded ones
C3_SeveralCreated ==
  /\ Cardinality(DOMAIN users) >= 2
  /\ Cardinality(DOMAIN categories) > Len(defaultCategories)

\* the job of a createJob step is stored under a new id and returned
JobCreated(job) ==
  /\ last'.res = WithId(job, jobIdCounter)
  /\ jobIdCounter \notin DOMAIN jobs
  /\ jobs' = MapSet(jobs, jobIdCounter, last'.res)

\* the jobCount went up by exactly one
CountedUp(old, new) ==
  /\ Has(old, "jobCount") /\ ~old.jobCount.nan
  /\ new = With(old, "jobCount", Num(old.jobCount.val + 1))

\* C5 as claimed: createJob(job) raises by exactly 1 the jobCount of each
\* category whose name equals job.category and leaves every other category
\* as it was; the job is created and returned either way.
C5_EachMatchingCounted ==
  [][last'.op = "createJob" =>
       /\ JobCreated(last'.arg)
       /\ DOMAIN categories' = DOMAIN categories
       /\ \A i \in DOMAIN categories :
            IF categories[i].name = last'.arg.category
            THEN CountedUp(categories[i], categories'[i])
            ELSE categories'[i] = categories[i]]_vars

\* C5 as amended: createJob(job) changes one category at most, the first in
\* insertion order whose name equals job.category: its jobCount goes up by
\* exactly 1 (and becomes NaN when the category was stored without a numeric
\* jobCount); every other category, later ones of the same name included, is
\* unchanged; with no category of that name all are unchanged; the job is
\* created and returned either way.
C5_FirstMatchingCounted ==
  [][last'.op = "createJob" =>
       LET matching == {i \in DOMAIN categories : categories[i].name = last'.arg.category}
       IN /\ JobCreated(last'.arg)
          /\ DOMAIN categories' = DOMAIN categories
          /\ \A i \in DOMAIN categories :
               IF i \in matching /\ \A j \in matching : i <= j
               THEN IF Has(categories[i], "jobCount") /\ ~categories[i].jobCount.nan
                    THEN CountedUp(categories[i], categories'[i])
                    ELSE categories'[i] = With(categories[i], "jobCount", NaN)
               ELSE categories'[i] = categories[i]]_vars

\* a job was created in a category name that two categories carry
C5_JobInDoubledCategory ==
  /\ last.op = "createJob"
  /\ \E i, j \in DOMAIN categories :
       i < j /\ categories[i].name = last.arg.category
             /\ categories[j].name = last.arg.category

\* C6: updateApplicationStatus(id, status) on an id with no application
\* returns undefined and changes nothing; on a stored id it sets that
\* application's status, leaves its other fields, the other applications and
\* the users, jobs and categories as they were, and returns the new record.
C6_StatusOnly ==
  [][last'.op = "updateApplicationStatus" =>
       LET id == last'.arg.id
       IN /\ UNCHANGED <<users, jobs, categories, userIdCounter, jobIdCounter,
                         applicationIdCounter, categoryIdCounter>>
          /\ IF id.nan \/ id.val \notin DOMAIN applications
             THEN last'.res = None /\ applications' = applications
             ELSE /\ DOMAIN applications' = DOMAIN applications
                  /\ \A k \in (DOMAIN applications) \ {id.val} :
                       applications'[k] = applications[k]
                  /\ DOMAIN applications'[id.val] =
                       (DOMAIN applications[id.val]) \cup {"status"}
                  /\ applications'[id.val].status = last'.arg.status
                  /\ \A f \in (DOMAIN applications[id.val]) \ {"status"} :
                       applications'[id.val][f] = applications[id.val][f]
                  /\ last'.res = Some(applications'[id.val])]_vars

\* one of two stored applications got a new status
C6_OneOfTwoUpdated ==
  /\ last.op = "updateApplicationStatus"
  /\ last.res # None
  /\ Cardinality(DOMAIN applications) >= 2
  /\ \E k \in DOMAIN applications : applications[k].status # last.arg.status

\* every record of old is in new, the same but for the one field
KeptButFor(old, new, field) ==
  /\ DOMAIN old \subseteq DOMAIN new
  /\ \A i \in DOMAIN old :
       /\ (DOMAIN old[i]) \ {field} = (DOMAIN new[i]) \ {field}
       /\ \A f \in (DOMAIN old[i]) \ {field} : new[i][f] = old[i][f]

\* C7: across any sequence of store operations no record is ever removed,
\* every stored user and job stays identical to the record its creation
\* returned, and an existing application changes in its status only, an
\* existing category in its jobCount only.
C7_RecordsKept ==
  [][/\ DOMAIN users \subseteq DOMAIN users'
     /\ \A i \in DOMAIN users : users'[i] = users[i]
     /\ DOMAIN jobs \subseteq DOMAIN jobs'
     /\ \A i \in DOMAIN jobs : jobs'[i] = jobs[i]
     /\ KeptButFor(applications, applications', "status")
     /\ KeptButFor(categories, categories', "jobCount")
     /\ (last'.op = "createUser" => users'[last'.res.id] = last'.res)
     /\ (last'.op = "createJob" => jobs'[last'.res.id] = last'.res)]_vars

\* a user and a job are stored and an application was moved to hired
C7_StoredAndUpdated ==
  /\ users # <<>>
  /\ jobs # <<>>
  /\ \E i \in DOMAIN applications : applications[i].status = "hired"

\* the request of the last response named a record by :id, and how
IdRoute == last.op \in {"GET /api/users/:id", "GET /api/jobs/:id",
                        "PATCH /api/applications/:id/status"}
IdParamOfLast ==
  IF last.op = "PATCH /api/applications/:id/status" THEN last.arg.id ELSE last.arg
StatusGiven ==
  last.op = "PATCH /api/applications/:id/status" => ~Falsy(last.arg.body, "status", "")
NotFoundMessage ==
  CASE last.op = "GET /api/users/:id" -> Message("User not found")
    [] last.op = "GET /api/jobs/:id" -> Message("Job not found")
    [] OTHER -> Message("Application not found")
RecordOfLast ==
  CASE last.op = "GET /api/users/:id" -> getUser(ParseInt(IdParamOfLast))
    [] last.op = "GET /api/jobs/:id" -> getJob(ParseInt(IdParamOfLast))
    [] OTHER -> MapGet(applications, ParseInt(IdParamOfLast))

\* C8 as claimed: on GET /api/users/:id, GET /api/jobs/:id and PATCH
\* /api/applications/:id/status (with a status), an :id that parses to no
\* number is answered 500, and a numeric id with no record 404 with the
\* route's not-found message.
C8_MalformedIdIs500 ==
  (IdRoute /\ StatusGiven) =>
    IF ParseInt(IdParamOfLast).nan THEN last.res.status = 500
    ELSE (RecordOfLast = None => last.res = Response(404, NotFoundMessage))

\* C8 as amended: on those routes an :id that parses to no number is
\* answered like a numeric id with no record: 404 with the route's not-found
\* message ('Job not found' for jobs).
C8_MalformedIdIs404 ==
  (IdRoute /\ StatusGiven) =>
    IF ParseInt(IdParamOfLast).nan \/ RecordOfLast = None
    THEN last.res = Response(404, NotFoundMessage)
    ELSE last.res.status = 200

\* a job was asked for with an :id that is no number
C8_MalformedJobId ==
  /\ last.op = "GET /api/jobs/:id"
  /\ ParseInt(last.arg).nan
  /\ last.res.status = 404

\* the body has every required column but the one
ValidBut(required, body, field) ==
  /\ required \ {field} \subseteq DOMAIN body
  /\ field \notin DOMAIN body

\* C9: POST /api/applications with an otherwise valid body without status
\* stores (201) an application with status 'applied', without appliedDate one
\* with the current time as appliedDate; POST /api/jobs with an otherwise
\* valid body without postedDate stores a job with the current time as
\* postedDate.
C9_DefaultsApplied ==
  /\ (last.op = "POST /api/applications"
        /\ ValidBut(insertApplicationRequired, last.arg, "status")) =>
       /\ last.res.status = 201
       /\ applications[last.res.body.id].status = "applied"
  /\ (last.op = "POST /api/applications"
        /\ ValidBut(insertApplicationRequired, last.arg, "appliedDate")) =>
       /\ last.res.status = 201
       /\ applications[last.res.body.id].appliedDate = now
  /\ (last.op = "POST /api/jobs"
        /\ ValidBut(insertJobRequired, last.arg, "postedDate")) =>
       /\ last.res.status = 201
       /\ jobs[last.res.body.id].postedDate = now

\* text holds term at some place, letter case aside
ContainsFolded(text, term) ==
  \E at \in 0..(Len(text) - Len(term)) :
    \A k \in 1..Len(term) : ToLowerChar(text[at + k]) = ToLowerChar(term[k])

\* the predicate of each filter, for a filter value v
SatisfiesSearch(job, v) ==
  \E field \in {"title", "company", "description"} : ContainsFolded(job[field], v)
SatisfiesLocation(job, v) == ContainsFolded(job.location, v)
SatisfiesCategory(job, v) == job.category = v
SatisfiesJobType(job, v) == job.jobType \in {v[i] : i \in 1..Len(v)}
SatisfiesExperienceLevel(job, v) == job.experienceLevel \in {v[i] : i \in 1..Len(v)}
SatisfiesDatePosted(job, v) ==
  /\ v = "last24h" => job.postedDate >= now - 1
  /\ v = "last3d" => job.postedDate >= now - 3
  /\ v = "last7d" => job.postedDate >= now - 7
  /\ v = "last14d" => job.postedDate >= now - 14
SatisfiesSalaryRange(job, v) ==
  /\ Has(job, "salary")
  /\ MatchDollarAmount(job.salary) # None
  /\ StripNonDigits(v) # <<>>
  /\ ParseInt(StripCommas(Get(MatchDollarAmount(job.salary)))).val
       >= ParseInt(StripNonDigits(v)).val

\* the job satisfies the predicate of every filter among the given ones
SatisfiesAll(job, filters, given) ==
  /\ "search" \in given => SatisfiesSearch(job, filters.search)
  /\ "location" \in given => SatisfiesLocation(job, filters.location)
  /\ "category" \in given => SatisfiesCategory(job, filters.category)
  /\ "jobType" \in given => SatisfiesJobType(job, filters.jobType)
  /\ "experienceLevel" \in given => SatisfiesExperienceLevel(job, filters.experienceLevel)
  /\ "datePosted" \in given => SatisfiesDatePosted(job, filters.datePosted)
  /\ "salaryRange" \in given => SatisfiesSalaryRange(job, filters.salaryRange)

\* the list holds exactly the stored jobs that satisfy the given filters,
\* each once
ExactlyTheJobs(list, filters, given) ==
  /\ {list[i] : i \in 1..Len(list)} =
       {jobs[k] : k \in {m \in DOMAIN jobs : SatisfiesAll(jobs[m], filters, given)}}
  /\ \A i, j \in 1..Len(list) : list[i] = list[j] => i = j

\* the filters that are set to something other than the empty string or the
\* empty list
NonEmpty(filters) ==
  {f \in DOMAIN filters :
     IF f \in {"category", "datePosted"} THEN filters[f] # "" ELSE filters[f] # <<>>}

\* the query of GET /api/jobs with its comma-separated lists split
SplitLists(query) ==
  [f \in DOMAIN query |->
     IF f \in {"jobType", "experienceLevel"} THEN SplitComma(query[f]) ELSE query[f]]

\* C4 as claimed: getJobs(filters) returns exactly the jobs that satisfy the
\* predicate of every filter supplied in filters; a filter left unset
\* imposes no constraint.
C4_ExactlySuppliedFilters ==
  last.op = "getJobs" => ExactlyTheJobs(last.res, last.arg, DOMAIN last.arg)

\* C4 as amended: getJobs(filters) returns exactly the jobs that satisfy the
\* predicate of every filter that is set to a non-empty value; a filter left
\* unset, or set to the empty string or the empty list, imposes no
\* constraint.  GET /api/jobs answers with the same, its jobType and
\* experienceLevel being the comma-separated items of the query value.
C4_ExactlyNonEmptyFilters ==
  /\ last.op = "getJobs" => ExactlyTheJobs(last.res, last.arg, NonEmpty(last.arg))
  /\ last.op = "GET /api/jobs" =>
       /\ last.res.status = 200
       /\ ExactlyTheJobs(last.res.body, SplitLists(last.arg), NonEmpty(last.arg))

\* two non-empty filters and an empty list kept one of two stored jobs
C4_TwoFiltersKeepOne ==
  /\ last.op = "getJobs"
  /\ Cardinality(NonEmpty(last.arg)) >= 2
  /\ Has(last.arg, "jobType") /\ last.arg.jobType = <<>>
  /\ Len(last.res) = 1
  /\ Cardinality(DOMAIN jobs) = 2

\* the list of jobs of the last search
JobsOfLast ==
  IF last.op = "getJobs" THEN last.res
  ELSE IF last.op = "GET /api/jobs" THEN last.res.body
  ELSE <<>>

\* C10: getJobs returns its result ordered by postedDate descending,
\* whatever the stored jobs, the filters and the insertion order: of two
\* adjacent jobs the earlier one's postedDate is at least the later one's.
C10_NewestFirst ==
  \A i \in 1..(Len(JobsOfLast) - 1) :
    JobsOfLast[i].postedDate >= JobsOfLast[i + 1].postedDate

\* a job created later was returned before an older one created earlier
C10_Reordered ==
  /\ last.op = "getJobs"
  /\ Len(last.res) >= 2
  /\ last.res[1].id > last.res[2].id
  /\ last.res[1].postedDate > last.res[2].postedDate

\* the stored jobs whose category field is the name
JobsOfCategory(name) == {k \in DOMAIN jobs : jobs[k].category = name}

\* the seeded category i is stored under id i with its name, and its
\* jobCount is the seed value plus the number of stored jobs of that name
SeedPlusJobs(i) ==
  /\ i \in DOMAIN categories
  /\ categories[i].id = i
  /\ categories[i].name = defaultCategories[i].name
  /\ categories[i].jobCount =
       Num(defaultCategories[i].jobCount.val
             + Cardinality(JobsOfCategory(defaultCategories[i].name)))

\* no seeded category's jobCount is lower after the step than before
NoCountDecreases ==
  \A i \in 1..Len(defaultCategories) :
    /\ ~categories'[i].jobCount.nan
    /\ categories'[i].jobCount.val >= categories[i].jobCount.val

\* C11: in every state reached from the freshly seeded store through any
\* sequence or interleaving of HTTP requests, each of the eight seeded
\* categories has jobCount equal to its seed value plus the number of
\* stored jobs whose category equals its name; so no jobCount ever
\* decreases and no job creation, concurrent with other requests or not,
\* loses an increment.
C11_CountIsSeedPlusJobs ==
  /\ [](\A i \in 1..Len(defaultCategories) : SeedPlusJobs(i))
  /\ [][NoCountDecreases]_vars

\* POST /api/jobs has just stored a second job of a seeded category while
\* another request is in flight
C11_TwoJobsCounted ==
  /\ last.op = "POST /api/jobs"
  /\ last.res.status = 201
  /\ Cardinality(JobsOfCategory("Technology")) = 2
  /\ \E c \in Clients : pending[c] # None

=============================================================================
